---- MODULE Spec2Model ----
(***************************************************************************)
(* Model of index.js: the registration endpoint with its photo upload, and *)
(* the two PDF export endpoints (registration table on A4, ID cards on A3).*)
(*                                                                         *)
(* Lengths of the table export are in thousandths of a PDF point, lengths  *)
(* of the ID card export in 1/76200 of a point (the smallest unit in which *)
(* the page size, (5.9 / 2.54) * 300 and the gutters are all integers).    *)
(***************************************************************************)
EXTENDS Integers, Sequences, FiniteSets

VARIABLES
  pc,          \* position of the export request: idle, loop, done, failed
  route,       \* which export endpoint is being served
  nRegs,       \* registrations.length of the snapshot read by the export
  i,           \* loop index of the export loop
  yPosition,   \* table export: vertical cursor
  serialNo,    \* table export: next serial number
  cardCount,   \* card export: cards drawn so far
  pages,       \* the document: one sequence of drawn items per page
  last,        \* the row or card drawn by the latest loop iteration
  fontSize,    \* doc's current font size
  fillColor,   \* doc's current fill colour
  resHeaders,  \* headers set on the response
  piped,       \* doc.pipe(res) has been called
  resStatus,   \* status of the response (0: not yet decided)
  failCause,   \* what threw, when the catch block ran
  now,         \* Date.now() of the server clock
  reqs,        \* registration requests: their progress and stored file
  disk,        \* uploads/ : file name -> request whose bytes it holds
  saved        \* Registration documents saved, as [req, photoUrl]

exportVars == <<pc, route, nRegs, i, yPosition, serialNo, cardCount, pages, last,
                fontSize, fillColor, resHeaders, piped, resStatus, failCause>>
registerVars == <<now, reqs, disk, saved>>
vars == <<exportVars, registerVars>>

\* ------------------------------------------------------------------ bounds
MaxRecords == 51
NumRequests == 3
MaxClock == 2

\* --------------------------------------------------------------- utilities
Pt(n) == n * 1000
CU(n) == n * 76200

Count(s, t) == Cardinality({k \in 1..Len(s) : s[k] = t})

\* A record's photo: no path stored, path stored but no file, file present
\* but doc.image throws, file present and loadable.
PhotoModes == {"nopath", "nofile", "corrupt", "ok"}
\* reg.designations of a lean() document: an array, or absent (PUT passes
\* req.body to findByIdAndUpdate unvalidated).
DesigModes == {"array", "absent"}

NoItem == [kind |-> "none", idx |-> 0, page |-> 0, x |-> 0, y |-> 0, serial |-> 0,
           mode |-> "ok", photo |-> "", size |-> 0, color |-> "", cells |-> <<>>]

\* ------------------------------------------- registration table export (A4)
A4Width == 595280
A4Height == 841890
TableMargin == Pt(50)
rowHeight == Pt(60)
headerHeight == Pt(20)
totalTableWidth == Pt(30 + 50 + 90 + 60 + 60 + 120 + 60)
TableCells == <<"sn", "photo", "name", "cluster", "unit", "designations", "signature">>

\* Height of one line of text at a font size (Helvetica, the document's
\* default font: 1.156 times the size).
LineHeight(size) == 1156 * size

\* drawTableHeader: the title block and the header row, drawn from the top
\* margin of a fresh page. ops is what it draws, yPosition the header's
\* bottom edge, and the style it leaves is fontSize(10).fillColor('black').
drawTableHeader ==
  LET docY == TableMargin + LineHeight(16) + LineHeight(14) + LineHeight(14)
                + LineHeight(12) + (LineHeight(12) \div 2)
  IN [ops |-> <<"title", "header">>,
      startX |-> (A4Width - totalTableWidth) \div 2,
      yPosition |-> docY + headerHeight,
      size |-> 10, color |-> "black"]

\* The pagination check at the top of the loop body.
NeedsPageBreakLate(y) == y > A4Height - TableMargin
NeedsPageBreakEarly(y) == y + 2 * rowHeight > A4Height - TableMargin
NeedsPageBreak(y) == y + rowHeight > A4Height - TableMargin

\* doc.addPage followed by drawTableHeader.
AddPageBare(pgs) == Append(pgs, <<>>)
AddPageWithHeader(pgs) == Append(pgs, drawTableHeader.ops)

\* serialNo++
NextSerialNoStuck(s) == s
NextSerialNo(s) == s + 1

\* The photo cell of a table row: what is drawn, whether the drawing
\* changed the text style to fontSize(8).fillColor('gray'), and whether an
\* exception left the row.
Placeholder(label) == [cell |-> label, restyled |-> TRUE, thrown |-> FALSE]
TablePhotoCellUnguarded(mode) ==
  IF mode = "nopath" THEN Placeholder("N/A")
  ELSE IF mode = "nofile" THEN Placeholder("N/A")
  ELSE IF mode = "corrupt" THEN [cell |-> "", restyled |-> FALSE, thrown |-> TRUE]
  ELSE [cell |-> "image", restyled |-> FALSE, thrown |-> FALSE]
TablePhotoCell(mode) ==
  IF mode = "nopath" THEN Placeholder("N/A")            \* else branch
  ELSE IF mode = "nofile" THEN Placeholder("N/A")       \* existsSync is false
  ELSE IF mode = "corrupt" THEN Placeholder("N/A")      \* doc.image throws, caught
  ELSE [cell |-> "image", restyled |-> FALSE, thrown |-> FALSE]

PdfHeaders(file) == {"Content-Type: application/pdf",
                     "Content-Disposition: attachment; filename=" \o file}

\* The catch block: res.status(500).send(...). Headers already set stay set.
Fail(cause) ==
  /\ pc' = "failed"
  /\ failCause' = cause
  /\ resStatus' = 500

\* Registration.find, the document, the response headers, the pipe and the
\* first page's header.
TableStart ==
  /\ pc = "idle"
  /\ \/ /\ Fail("find")
        /\ route' = "table"
        /\ UNCHANGED <<nRegs, i, yPosition, serialNo, cardCount, pages, last,
                       fontSize, fillColor, resHeaders, piped>>
     \/ \E n \in 0..MaxRecords :
          /\ pc' = "loop"
          /\ route' = "table"
          /\ nRegs' = n
          /\ i' = 0
          /\ resHeaders' = PdfHeaders("registrations.pdf")
          /\ piped' = TRUE
          /\ pages' = <<drawTableHeader.ops>>
          /\ yPosition' = drawTableHeader.yPosition
          /\ fontSize' = drawTableHeader.size
          /\ fillColor' = drawTableHeader.color
          /\ serialNo' = 1
          /\ UNCHANGED <<cardCount, last, resStatus, failCause>>
  /\ UNCHANGED registerVars

\* One iteration of the row loop.
TableRow ==
  /\ pc = "loop" /\ route = "table" /\ i < nRegs
  /\ \E mode \in PhotoModes, desig \in DesigModes :
       LET brk == NeedsPageBreak(yPosition)
           pgs == IF brk THEN AddPageWithHeader(pages) ELSE pages
           y == IF brk THEN drawTableHeader.yPosition ELSE yPosition
           photo == TablePhotoCell(mode)
           size == IF photo.restyled THEN 8 ELSE 10
           color == IF photo.restyled THEN "gray" ELSE "black"
           drawn == IF photo.thrown THEN SubSeq(TableCells, 1, 1)
                    ELSE IF desig = "absent" THEN SubSeq(TableCells, 1, 5)
                    ELSE TableCells
           row == [kind |-> "row", idx |-> i, page |-> Len(pgs),
                   x |-> drawTableHeader.startX, y |-> y, serial |-> serialNo,
                   mode |-> mode, photo |-> photo.cell,
                   size |-> size, color |-> color, cells |-> drawn]
       IN /\ pages' = [pgs EXCEPT ![Len(pgs)] = Append(@, "row")]
          /\ last' = row
          /\ serialNo' = NextSerialNo(serialNo)
          /\ fontSize' = size
          /\ fillColor' = color
          /\ IF photo.thrown \/ desig = "absent"
             THEN /\ Fail(IF photo.thrown THEN "image" ELSE "designations")
                  /\ yPosition' = y
                  /\ UNCHANGED i
             ELSE /\ yPosition' = y + rowHeight
                  /\ i' = i + 1
                  /\ UNCHANGED <<pc, failCause, resStatus>>
  /\ UNCHANGED <<route, nRegs, cardCount, resHeaders, piped>>
  /\ UNCHANGED registerVars

\* ------------------------------------------------------ ID card export (A3)
A3Width == 762 * 84189       \* 841.89 points
A3Height == 762 * 119055     \* 1190.55 points
cardWidth == (CU(300) \div 254) * 590    \* (5.9 / 2.54) * 300
cardHeight == (CU(300) \div 254) * 840   \* (8.4 / 2.54) * 300
columns == 5
rows == 5
cardsPerPage == columns * rows
margin == CU(20)
availableWidth == A3Width - margin * 2
availableHeight == A3Height - margin * 2
gutterX == (availableWidth - columns * cardWidth) \div (columns + 1)
gutterY == (availableHeight - rows * cardHeight) \div (rows + 1)

\* cmToPx300, of a length given in hundredths of a centimetre:
\* Math.round(cm * (300 / 2.54)).
cmToPx300(c) == (c * 600 + 254) \div 508

\* The origin of the card drawn when cardCount cards have been drawn.
CardCell(count) ==
  LET posIndex == count % cardsPerPage
      colIndex == posIndex % columns
      rowIndex == posIndex \div columns
  IN [col |-> colIndex, row |-> rowIndex,
      x |-> margin + gutterX + colIndex * (cardWidth + gutterX),
      y |-> margin + gutterY + rowIndex * (cardHeight + gutterY)]

\* The photo slot of drawIDCard.
CardPhotoSlot(mode) ==
  IF mode = "nopath" THEN Placeholder("No Photo")        \* outer else branch
  ELSE IF mode = "nofile" THEN Placeholder("No Photo")   \* existsSync is false
  ELSE IF mode = "corrupt" THEN Placeholder("No Photo")  \* doc.image throws, caught
  ELSE [cell |-> "image", restyled |-> FALSE, thrown |-> FALSE]

\* The page break after a card: count is cardCount after the increment.
CardNeedsPageAlways(count, idx, n) == count % cardsPerPage = 0
CardNeedsPage(count, idx, n) == count % cardsPerPage = 0 /\ idx < n - 1

CardsStart ==
  /\ pc = "idle"
  /\ \/ /\ Fail("find")
        /\ route' = "cards"
        /\ UNCHANGED <<nRegs, i, yPosition, serialNo, cardCount, pages, last,
                       fontSize, fillColor, resHeaders, piped>>
     \/ \E n \in 0..MaxRecords :
          /\ pc' = "loop"
          /\ route' = "cards"
          /\ nRegs' = n
          /\ i' = 0
          /\ resHeaders' = PdfHeaders("idcards.pdf")
          /\ piped' = TRUE
          /\ pages' = << <<>> >>
          /\ cardCount' = 0
          /\ UNCHANGED <<yPosition, serialNo, last, fontSize, fillColor,
                         resStatus, failCause>>
  /\ UNCHANGED registerVars

\* One iteration of the card loop.
CardsCard ==
  /\ pc = "loop" /\ route = "cards" /\ i < nRegs
  /\ \E mode \in PhotoModes, desig \in DesigModes :
       LET cell == CardCell(cardCount)
           photo == CardPhotoSlot(mode)
           drawn == IF photo.thrown THEN <<"background">>
                    ELSE IF desig = "absent"
                         THEN <<"background", "photo", "name", "clusterunit">>
                    ELSE <<"background", "photo", "name", "clusterunit", "designations">>
           card == [kind |-> "card", idx |-> i, page |-> Len(pages),
                    x |-> cell.x, y |-> cell.y, serial |-> 0,
                    mode |-> mode, photo |-> photo.cell,
                    size |-> cmToPx300(35), color |-> "#000", cells |-> drawn]
           pgs == [pages EXCEPT ![Len(pages)] = Append(@, <<cell.col, cell.row>>)]
       IN /\ last' = card
          /\ fillColor' = IF photo.thrown THEN "black" ELSE "#000"
          /\ fontSize' = IF photo.thrown THEN fontSize ELSE cmToPx300(28)
          /\ IF photo.thrown \/ desig = "absent"
             THEN /\ Fail(IF photo.thrown THEN "image" ELSE "designations")
                  /\ pages' = pgs
                  /\ UNCHANGED <<i, cardCount>>
             ELSE /\ cardCount' = cardCount + 1
                  /\ pages' = IF CardNeedsPage(cardCount + 1, i, nRegs)
                              THEN Append(pgs, <<>>) ELSE pgs
                  /\ i' = i + 1
                  /\ UNCHANGED <<pc, failCause, resStatus>>
  /\ UNCHANGED <<route, nRegs, yPosition, serialNo, resHeaders, piped>>
  /\ UNCHANGED registerVars

\* doc.end() after the loop, of either export.
ExportEnd ==
  /\ pc = "loop" /\ i = nRegs
  /\ pc' = "done"
  /\ resStatus' = 200
  /\ UNCHANGED <<route, nRegs, i, yPosition, serialNo, cardCount, pages, last,
                 fontSize, fillColor, resHeaders, piped, failCause>>
  /\ UNCHANGED registerVars

\* ------------------------------------------------------ POST /api/register
Requests == 1..NumRequests
Exts == {".jpg", ".png"}
NoFile == <<>>

\* multer's filename callback: file.fieldname + '-' + Date.now() + ext. The
\* field name is always 'photo' (upload.single('photo')).
uniqueName(t, ext) == <<"photo", t, ext>>

\* The server clock advances by a millisecond.
Tick ==
  /\ now < MaxClock
  /\ now' = now + 1
  /\ UNCHANGED <<reqs, disk, saved>>
  /\ UNCHANGED exportVars

\* upload.single('photo'): a request that carries a photo has it written to
\* uploads/ under uniqueName, replacing any file of that name.
Upload(r) ==
  /\ reqs[r].state = "new"
  /\ \/ /\ reqs' = [reqs EXCEPT ![r] = [state |-> "uploaded", path |-> NoFile]]
        /\ UNCHANGED disk
     \/ \E ext \in Exts :
          LET name == uniqueName(now, ext)
          IN /\ disk' = {f \in disk : f.name # name} \cup {[name |-> name, owner |-> r]}
             /\ reqs' = [reqs EXCEPT ![r] = [state |-> "uploaded", path |-> name]]
  /\ UNCHANGED <<now, saved>>
  /\ UNCHANGED exportVars

\* The route handler: 400 when a required field is missing, else the
\* registration is saved with photoUrl = req.file.path ('' without a file),
\* or save rejects and the catch block answers 500.
Register(r) ==
  /\ reqs[r].state = "uploaded"
  /\ \/ /\ reqs' = [reqs EXCEPT ![r].state = "rejected"]
        /\ UNCHANGED saved
     \/ /\ reqs' = [reqs EXCEPT ![r].state = "error"]
        /\ UNCHANGED saved
     \/ /\ reqs' = [reqs EXCEPT ![r].state = "saved"]
        /\ saved' = saved \cup {[req |-> r, photoUrl |-> reqs[r].path]}
  /\ UNCHANGED <<now, disk>>
  /\ UNCHANGED exportVars

\* ---------------------------------------------------------- specifications
Init ==
  /\ pc = "idle"
  /\ route = "none"
  /\ nRegs = 0
  /\ i = 0
  /\ yPosition = 0
  /\ serialNo = 0
  /\ cardCount = 0
  /\ pages = <<>>
  /\ last = NoItem
  /\ fontSize = 12
  /\ fillColor = "black"
  /\ resHeaders = {}
  /\ piped = FALSE
  /\ resStatus = 0
  /\ failCause = "none"
  /\ now = 0
  /\ reqs = [r \in Requests |-> [state |-> "new", path |-> NoFile]]
  /\ disk = {}
  /\ saved = {}

Next ==
  \/ TableStart
  \/ TableRow
  \/ CardsStart
  \/ CardsCard
  \/ ExportEnd

NextRegister ==
  \/ Tick
  \/ \E r \in Requests : Upload(r)
  \/ \E r \in Requests : Register(r)

Spec == Init /\ [][Next]_vars
SpecRegister == Init /\ [][NextRegister]_vars

\* ------------------------------------------------------------------ claims
Max(a, b) == IF a >= b THEN a ELSE b
CeilDiv(a, b) == (a + b - 1) \div b
TableRun == route = "table" /\ pages # <<>>
CardsRun == route = "cards" /\ pages # <<>>
PrintableBottom == A4Height - TableMargin
\* Rows that fit between the header's bottom edge and the printable bottom.
RowsThatFit == (PrintableBottom - drawTableHeader.yPosition) \div rowHeight

C5_PhotoFailureDegrades ==
  /\ failCause # "image"
  /\ (last.kind # "none" /\ last.mode # "ok") =>
       /\ last.photo = (IF last.kind = "row" THEN "N/A" ELSE "No Photo")
       /\ Len(last.cells) >= (IF last.kind = "row" THEN 5 ELSE 4)
       /\ pc = "failed" => failCause = "designations"
       /\ pc # "failed" => i = last.idx + 1
  /\ pc = "done" => i = nRegs /\ resStatus = 200
C5_Witness ==
  /\ pc = "done" /\ route = "table" /\ nRegs = 3
  /\ last.kind = "row" /\ last.mode = "corrupt" /\ last.photo = "N/A"
  /\ last.cells = TableCells

\* C6: when an export has failed, the response carries an error status, no
\* PDF response header and no piped PDF document.
C6_FailedExportIsClean ==
  pc = "failed" => resStatus = 500 /\ resHeaders = {} /\ ~piped

\* C7: the serial number drawn in the row of record i is i + 1, also across
\* page breaks.
C7_SerialIsIndexPlusOne ==
  (TableRun /\ last.kind = "row") => last.serial = last.idx + 1
C7_Witness ==
  /\ TableRun /\ last.kind = "row" /\ last.page = 2
  /\ last.y = drawTableHeader.yPosition /\ last.serial = RowsThatFit + 1

\* C8: the gutters are non-negative and every card drawn lies inside the
\* page margins.
C8_CardsInsideMargins ==
  (CardsRun /\ last.kind = "card") =>
    /\ gutterX >= 0 /\ gutterY >= 0
    /\ last.x >= margin /\ last.x + cardWidth <= A3Width - margin
    /\ last.y >= margin /\ last.y + cardHeight <= A3Height - margin

\* C9: name, cluster, unit and designations of every table row are drawn at
\* font size 10 in black, whatever the photo cell received.
C9_RowTextStyleUnchanged ==
  (TableRun /\ last.kind = "row") => last.size = 10 /\ last.color = "black"

\* C10: two requests that uploaded a photo are stored under distinct file
\* names, and the file a saved registration's photoUrl names holds the bytes
\* of that registration's own upload.
C10_UploadNamesDistinct ==
  /\ \A a, b \in Requests :
       (a # b /\ reqs[a].path # NoFile /\ reqs[b].path # NoFile)
         => reqs[a].path # reqs[b].path
  /\ \A s \in saved : s.photoUrl # NoFile =>
       \E f \in disk : f.name = s.photoUrl /\ f.owner = s.req

====
